---- MODULE Spec2Model ----
(***************************************************************************)
(* Model of nvme-ata-security (src/user/src/main.rs): one run of the tool  *)
(* against one NVMe device.  The device, the terminal and the password     *)
(* file are the environment: every answer they can give is drawn           *)
(* nondeterministically.  `trace` is the log of every blocking call the    *)
(* program makes (device commands and password reads), in program order.   *)
(***************************************************************************)
EXTENDS Integers, Sequences, FiniteSets, TLC

VARIABLES
    pc,         \* position of main: "start", "opened", "dispatch", "execute", "done"
    args,       \* the decoded command line (struct Args)
    trace,      \* every device command / password read issued so far, in order
    identity,   \* `i` of query / check_support: <<>>, or <<oacs>> once identified
    protocols,  \* `protocols` of query / check_support: <<>>, or <<the list>>
    security,   \* `security` of query / check_support: <<>>, or <<the 16 bytes>>
    support,    \* what check_support returned: "unset", "None" or "Some"
    password,   \* the [u8;32] read_password returned (<<>> before)
    attempts,   \* iterations of the interactive prompt loop taken so far
    result,     \* `result` of main: "unset", "Ok", "Err"
    out         \* messages written to stderr, in order

vars == <<pc, args, trace, identity, protocols, security, support, password, attempts, result, out>>

--------------------------------------------------------------------------
(* Bounds of the environment *)

\* largest high byte (offset 6) of the protocol-list length the device reports
MaxHi == 1
\* largest low byte (offset 7) of the protocol-list length the device reports;
\* the device writes that many protocol bytes of its choice
MaxLo == 2
\* how many bytes beyond 32 a password input may have
MaxExtra == 1
\* how many times the interactive prompt loop may start over
MaxAttempts == 1

\* admin-capability masks the device may report
OacsValues == {0, 2, 3}
\* protocol identifiers the device may list
ProtoBytes == {1, 239}
\* low byte of word 0 of the ATA security status the device may report
FlagValues == {0, 1, 2}
\* master password identifiers on the command line
IdValues == {0, 258}
\* characters a password is made of
PwChars == {97}

--------------------------------------------------------------------------
(* nvme::identify, nvme::security (mod nvme) *)

OACS_SECURITY == 1

Contains(mask, bit) == (mask \div bit) % 2 = 1

ProtocolAtaSecurity == [tag |-> "AtaSecurity", raw |-> 239]

\* impl From<u8> for Protocol
ProtocolFrom(b) ==
    IF b = 239 THEN ProtocolAtaSecurity ELSE [tag |-> "Other", raw |-> b]

\* impl Into<u8> for Protocol
ProtocolInto(p) == p.raw

AtaSecuritySpecific ==
    [SetPassword |-> 1, Unlock |-> 2, ErasePrepare |-> 3,
     EraseUnit |-> 4, FreezeLock |-> 5, DisablePassword |-> 6]

\* AtaSecurityIdentify::from([u8;16]) keeps the buffer; s_suprt is bit 0 of word 0
s_suprt(sec) == sec[1] % 2 = 1

\* AtaSecurityPassword::new(password, master, level, id).into(): 36 bytes
AtaSecurityPassword(pw, master, level, id) ==
    LET b0 == IF master THEN 1 ELSE 0
        b1 == IF level = <<TRUE>> THEN 1 ELSE 0
        idv == IF id = <<>> THEN 0 ELSE id[1]
    IN  <<b0, b1>> \o pw \o <<idv % 256, idv \div 256>>

--------------------------------------------------------------------------
(* ops (mod ops): the log entry of one blocking call *)

\* cmd: the call; protocol, sp: its protocol and sub-selector; len: the length
\* of its buffer; payload: the bytes sent; enc: the arguments the payload was
\* encoded from; data: the bytes the device wrote back; ok: Ok or Err
Ev(cmd, protocol, sp, len, payload, enc, data, ok) ==
    [cmd |-> cmd, protocol |-> protocol, sp |-> sp, len |-> len,
     payload |-> payload, enc |-> enc, data |-> data, ok |-> ok]

identify(r) ==
    Ev("identify", 0, 0, 0, <<>>, <<>>, IF r.ok THEN <<r.oacs>> ELSE <<>>, r.ok)

\* the device writes no more than the `len` bytes of the buffer
security_receive(protocol, sp, len, r) ==
    Ev("receive", protocol, sp, len, <<>>, <<>>,
       IF r.ok THEN SubSeq(r.data, 1, IF Len(r.data) < len THEN Len(r.data) ELSE len)
       ELSE <<>>, r.ok)

security_send(protocol, sp, payload, enc, ok) ==
    Ev("send", protocol, sp, Len(payload), payload, enc, <<>>, ok)

nvme_ioctl_reset(ok) == Ev("reset", 0, 0, 0, <<>>, <<>>, <<>>, ok)

\* what the buffer holds after the device wrote `data` into it
Received(buf, data) ==
    [i \in 1..Len(buf) |-> IF i <= Len(data) THEN data[i] ELSE buf[i]]

Zeros(n) == [i \in 1..n |-> 0]

DeviceCmds == {"identify", "receive", "send", "reset"}

--------------------------------------------------------------------------
(* Answers of the device *)

\* utf8: whether the serial, model and firmware fields are valid UTF-8
IdentifyAnswers ==
    {[ok |-> FALSE, oacs |-> 0, utf8 |-> TRUE]} \cup
    {[ok |-> TRUE, oacs |-> m, utf8 |-> u] : m \in OacsValues, u \in BOOLEAN}

\* phase 1: an 8-byte header, bytes 0..5 reserved, bytes 6..7 the length
HeaderAnswers ==
    {[ok |-> FALSE, data |-> <<>>]} \cup
    {[ok |-> TRUE, data |-> <<0, 0, 0, 0, 0, 0, hi, lo>>] : hi \in 0..MaxHi, lo \in 0..MaxLo}

\* phase 2: the header again and the protocol bytes the device has, as many as
\* the low byte of its length says (with a high byte set, the device writes
\* fewer bytes than it announced)
ListAnswers(hdr) ==
    {[ok |-> FALSE, data |-> <<>>]} \cup
    {[ok |-> TRUE, data |-> hdr \o l] :
        l \in IF Len(hdr) < 8 THEN {<<>>} ELSE [1..hdr[8] -> ProtoBytes]}

StatusAnswers ==
    {[ok |-> FALSE, data |-> <<>>]} \cup
    {[ok |-> TRUE, data |-> <<fl>> \o Zeros(15)] : fl \in FlagValues}

\* the errors a device command can return: a transport failure, or a status
\* other than zero reported by the device
DeviceIoErrors == {"Io", "Status"}

\* a device that either fails to identify itself or supports ATA security
IdentifyFew == {r \in IdentifyAnswers : r.utf8 /\ (r.ok => r.oacs = 3)}

HeaderFew == {r \in HeaderAnswers : r.ok /\ r.data[7] = 0 /\ r.data[8] = 1}

ListFew(hdr) == {r \in ListAnswers(hdr) : r.ok /\ r.data[9] = 239}

StatusFew == {r \in StatusAnswers : r.ok /\ r.data[1] = 1}

Lists(few, hdr) == IF few THEN ListFew(hdr) ELSE ListAnswers(hdr)

--------------------------------------------------------------------------
(* main.rs: the read-only composition *)

\* a variant that reads the length low byte first
LittleEndianU16(b) == b[2] * 256 + b[1]

\* (&supported[6..8]).read_u16::<BigEndian>()
BigEndianU16(b) == b[1] * 256 + b[2]

\* a variant that skips one byte too few of the header
security_protocols_list_skip7(supported, bytes, r2) ==
    LET resized == supported \o Zeros(bytes)
        rx2 == security_receive(0, 0, Len(resized), r2)
    IN  IF ~r2.ok
        THEN [cmds |-> <<rx2>>, res |-> "Err", val |-> <<>>]
        ELSE [cmds |-> <<rx2>>, res |-> "Some",
              val |-> [i \in 1..(Len(resized) - 8) |->
                          ProtocolFrom(Received(resized, r2.data)[i + 7])]]

\* the second receive of security_protocols and the list made of its answer
security_protocols_list(supported, bytes, r2) ==
    LET resized == supported \o Zeros(bytes)
        rx2 == security_receive(0, 0, Len(resized), r2)
    IN  IF ~r2.ok
        THEN [cmds |-> <<rx2>>, res |-> "Err", val |-> <<>>]
        ELSE [cmds |-> <<rx2>>, res |-> "Some",
              val |-> [i \in 1..(Len(resized) - 8) |->
                          ProtocolFrom(Received(resized, r2.data)[i + 8])]]

\* a variant that asks the device without looking at the capability bit
security_protocols_unchecked(oacs, r1, r2) ==
    LET rx1 == security_receive(0, 0, 8, r1)
        supported == Received(Zeros(8), r1.data)
        bytes == BigEndianU16(SubSeq(supported, 7, 8))
    IN  IF ~r1.ok
        THEN [cmds |-> <<rx1>>, res |-> "Err", val |-> <<>>]
        ELSE IF bytes > 0
             THEN LET l == security_protocols_list(supported, bytes, r2)
                  IN  [l EXCEPT !.cmds = <<rx1>> \o @]
             ELSE [cmds |-> <<rx1>>, res |-> "Some", val |-> <<>>]

\* r1, r2: the device's answers to the first and to the second receive
security_protocols(oacs, r1, r2) ==
    IF Contains(oacs, OACS_SECURITY)
    THEN LET rx1 == security_receive(0, 0, 8, r1)
             supported == Received(Zeros(8), r1.data)
             bytes == BigEndianU16(SubSeq(supported, 7, 8))
         IN  IF ~r1.ok
             THEN [cmds |-> <<rx1>>, res |-> "Err", val |-> <<>>]
             ELSE IF bytes > 0
                  THEN LET l == security_protocols_list(supported, bytes, r2)
                       IN  [l EXCEPT !.cmds = <<rx1>> \o @]
                  ELSE [cmds |-> <<rx1>>, res |-> "Some", val |-> <<>>]
    ELSE [cmds |-> <<>>, res |-> "None", val |-> <<>>]

\* a variant that calls ops::security_send where ata_identify calls security_receive
ata_identify_send(protos, r) ==
    IF ~(\E i \in 1..Len(protos) : protos[i] = ProtocolAtaSecurity)
    THEN [cmds |-> <<>>, res |-> "None", val |-> <<>>]
    ELSE LET tx == security_send(ProtocolInto(ProtocolAtaSecurity), 0, Zeros(16), <<>>, r.ok)
         IN  IF ~r.ok
             THEN [cmds |-> <<tx>>, res |-> "Err", val |-> <<>>]
             ELSE [cmds |-> <<tx>>, res |-> "Some", val |-> Zeros(16)]

\* a variant that asks for the status whatever the protocol list holds
ata_identify_unchecked(protos, r) ==
    LET rx == security_receive(ProtocolInto(ProtocolAtaSecurity), 0, 16, r)
    IN  IF ~r.ok
        THEN [cmds |-> <<rx>>, res |-> "Err", val |-> <<>>]
        ELSE [cmds |-> <<rx>>, res |-> "Some", val |-> Received(Zeros(16), r.data)]

ata_identify(protos, r) ==
    IF ~(\E i \in 1..Len(protos) : protos[i] = ProtocolAtaSecurity)
    THEN [cmds |-> <<>>, res |-> "None", val |-> <<>>]
    ELSE LET rx == security_receive(ProtocolInto(ProtocolAtaSecurity), 0, 16, r)
         IN  IF ~r.ok
             THEN [cmds |-> <<rx>>, res |-> "Err", val |-> <<>>]
             ELSE [cmds |-> <<rx>>, res |-> "Some", val |-> Received(Zeros(16), r.data)]

\* ri, r1, r2, r3: the device's answers to identify and to the three receives
query(ri, r1, r2, r3) ==
    LET ci == identify(ri)
        p == security_protocols(ri.oacs, r1, r2)
        s == ata_identify(p.val, r3)
        none == [cmds |-> <<>>, out |-> <<>>, identity |-> <<>>, protocols |-> <<>>,
                 security |-> <<>>]
    IN  IF ~ri.ok
        THEN [none EXCEPT !.cmds = <<ci>>, !.out = <<"error identity">>]
        ELSE IF ~ri.utf8
        \* std::str::from_utf8(..).unwrap() panics: the run ends here
        THEN [none EXCEPT !.cmds = <<ci>>, !.identity = <<ri.oacs>>, !.out = <<"panic">>]
        ELSE IF p.res = "Err"
        THEN [none EXCEPT !.cmds = <<ci>> \o p.cmds, !.identity = <<ri.oacs>>,
                          !.out = <<"identity", "error protocols">>]
        ELSE IF p.res = "None"
        THEN [none EXCEPT !.cmds = <<ci>> \o p.cmds, !.identity = <<ri.oacs>>,
                          !.out = <<"identity", "no nvme security">>]
        ELSE LET some == [none EXCEPT !.identity = <<ri.oacs>>, !.protocols = <<p.val>>,
                                     !.cmds = <<ci>> \o p.cmds \o s.cmds]
             IN  IF s.res = "Err"
                 THEN [some EXCEPT !.out = <<"identity", "protocols", "error ata security">>]
                 ELSE IF s.res = "None"
                 THEN [some EXCEPT !.out = <<"identity", "protocols", "no ata security commands">>]
                 ELSE [some EXCEPT !.security = <<s.val>>,
                          !.out = <<"identity", "protocols", "ata security">> \o
                                  (IF ~s_suprt(s.val) THEN <<"no ata security">> ELSE <<>>)]

check_support(ri, r1, r2, r3) ==
    LET ci == identify(ri)
        p == security_protocols(ri.oacs, r1, r2)
        s == ata_identify(p.val, r3)
        none == [cmds |-> <<>>, out |-> <<>>, identity |-> <<>>, protocols |-> <<>>,
                 security |-> <<>>, res |-> "None"]
    IN  IF ~ri.ok
        THEN [none EXCEPT !.cmds = <<ci>>, !.out = <<"error identity">>]
        ELSE IF p.res = "Err"
        THEN [none EXCEPT !.cmds = <<ci>> \o p.cmds, !.identity = <<ri.oacs>>,
                          !.out = <<"error protocols">>]
        ELSE IF p.res = "None"
        THEN [none EXCEPT !.cmds = <<ci>> \o p.cmds, !.identity = <<ri.oacs>>,
                          !.out = <<"no nvme security">>]
        ELSE LET some == [none EXCEPT !.identity = <<ri.oacs>>, !.protocols = <<p.val>>,
                                     !.cmds = <<ci>> \o p.cmds \o s.cmds]
             IN  IF s.res = "Err"
                 THEN [some EXCEPT !.out = <<"error ata security">>]
                 ELSE IF s.res = "None"
                 THEN [some EXCEPT !.out = <<"no ata security commands">>]
                 ELSE IF ~s_suprt(s.val)
                 THEN [some EXCEPT !.security = <<s.val>>, !.out = <<"no ata security">>]
                 ELSE [some EXCEPT !.security = <<s.val>>, !.res = "Some"]

--------------------------------------------------------------------------
(* main.rs: the mutating commands.  Each returns the commands it issued and *)
(* its Result; ok1, ok2: whether the device accepts its first, second call. *)

security_set_password_user(pw, maximum_security, ok1) ==
    LET enc == [master |-> FALSE, level |-> <<maximum_security>>, id |-> <<>>]
        buf == AtaSecurityPassword(pw, enc.master, enc.level, enc.id)
    IN  [cmds |-> <<security_send(ProtocolInto(ProtocolAtaSecurity),
                                  AtaSecuritySpecific.SetPassword, buf, <<enc>>, ok1)>>,
         res |-> IF ok1 THEN "Ok" ELSE "Err"]

\* a variant that passes a security level along with the master role
security_set_password_master_level(pw, id, ok1) ==
    LET enc == [master |-> TRUE, level |-> <<TRUE>>, id |-> <<id>>]
        buf == AtaSecurityPassword(pw, enc.master, enc.level, enc.id)
    IN  [cmds |-> <<security_send(ProtocolInto(ProtocolAtaSecurity),
                                  AtaSecuritySpecific.SetPassword, buf, <<enc>>, ok1)>>,
         res |-> IF ok1 THEN "Ok" ELSE "Err"]

security_set_password_master(pw, id, ok1) ==
    LET enc == [master |-> TRUE, level |-> <<>>, id |-> <<id>>]
        buf == AtaSecurityPassword(pw, enc.master, enc.level, enc.id)
    IN  [cmds |-> <<security_send(ProtocolInto(ProtocolAtaSecurity),
                                  AtaSecuritySpecific.SetPassword, buf, <<enc>>, ok1)>>,
         res |-> IF ok1 THEN "Ok" ELSE "Err"]

\* a variant that leaves the controller reset out
security_unlock_no_reset(pw, master, ok1, ok2) ==
    LET enc == [master |-> master, level |-> <<>>, id |-> <<>>]
        buf == AtaSecurityPassword(pw, enc.master, enc.level, enc.id)
        tx == security_send(ProtocolInto(ProtocolAtaSecurity),
                            AtaSecuritySpecific.Unlock, buf, <<enc>>, ok1)
    IN  [cmds |-> <<tx>>, res |-> IF ok1 THEN "Ok" ELSE "Err"]

\* a variant that sends Unlock a second time when the first send fails
security_unlock_retry(pw, master, ok1, ok2) ==
    LET enc == [master |-> master, level |-> <<>>, id |-> <<>>]
        buf == AtaSecurityPassword(pw, enc.master, enc.level, enc.id)
        tx(ok) == security_send(ProtocolInto(ProtocolAtaSecurity),
                                AtaSecuritySpecific.Unlock, buf, <<enc>>, ok)
    IN  IF ~ok1
        THEN [cmds |-> <<tx(FALSE), tx(ok2)>> \o
                       (IF ok2 THEN <<nvme_ioctl_reset(TRUE)>> ELSE <<>>),
              res |-> IF ok2 THEN "Ok" ELSE "Err"]
        ELSE [cmds |-> <<tx(TRUE), nvme_ioctl_reset(ok2)>>, res |-> IF ok2 THEN "Ok" ELSE "Err"]

security_unlock(pw, master, ok1, ok2) ==
    LET enc == [master |-> master, level |-> <<>>, id |-> <<>>]
        buf == AtaSecurityPassword(pw, enc.master, enc.level, enc.id)
        tx == security_send(ProtocolInto(ProtocolAtaSecurity),
                            AtaSecuritySpecific.Unlock, buf, <<enc>>, ok1)
    IN  IF ~ok1
        THEN [cmds |-> <<tx>>, res |-> "Err"]
        ELSE [cmds |-> <<tx, nvme_ioctl_reset(ok2)>>, res |-> IF ok2 THEN "Ok" ELSE "Err"]

\* a variant that sends EraseUnit whether or not ErasePrepare succeeded
security_erase_no_abort(pw, master, enhanced, ok1, ok2) ==
    LET prepare == security_send(ProtocolInto(ProtocolAtaSecurity),
                                 AtaSecuritySpecific.ErasePrepare, <<>>, <<>>, ok1)
        enc == [master |-> master, level |-> <<enhanced>>, id |-> <<>>]
        buf == AtaSecurityPassword(pw, enc.master, enc.level, enc.id)
    IN  [cmds |-> <<prepare, security_send(ProtocolInto(ProtocolAtaSecurity),
                                AtaSecuritySpecific.EraseUnit, buf, <<enc>>, ok2)>>,
         res |-> IF ok2 THEN "Ok" ELSE "Err"]

\* a variant that reads the security status again between the two sends
security_erase_recheck(pw, master, enhanced, ok1, ok2) ==
    LET prepare == security_send(ProtocolInto(ProtocolAtaSecurity),
                                 AtaSecuritySpecific.ErasePrepare, <<>>, <<>>, ok1)
        status == security_receive(ProtocolInto(ProtocolAtaSecurity), 0, 16,
                                   [ok |-> TRUE, data |-> Zeros(16)])
        enc == [master |-> master, level |-> <<enhanced>>, id |-> <<>>]
        buf == AtaSecurityPassword(pw, enc.master, enc.level, enc.id)
    IN  IF ~ok1
        THEN [cmds |-> <<prepare>>, res |-> "Err"]
        ELSE [cmds |-> <<prepare, status, security_send(ProtocolInto(ProtocolAtaSecurity),
                                     AtaSecuritySpecific.EraseUnit, buf, <<enc>>, ok2)>>,
              res |-> IF ok2 THEN "Ok" ELSE "Err"]

\* a variant that asks for the password at the terminal once more after
\* ErasePrepare was sent
security_erase_prompt_late(pw, master, enhanced, ok1, ok2) ==
    LET prepare == security_send(ProtocolInto(ProtocolAtaSecurity),
                                 AtaSecuritySpecific.ErasePrepare, <<>>, <<>>, ok1)
        prompt == Ev("read_tty", 0, 0, 0, <<>>, <<>>, pw, TRUE)
        enc == [master |-> master, level |-> <<enhanced>>, id |-> <<>>]
        buf == AtaSecurityPassword(pw, enc.master, enc.level, enc.id)
    IN  IF ~ok1
        THEN [cmds |-> <<prepare>>, res |-> "Err"]
        ELSE [cmds |-> <<prepare, prompt, security_send(ProtocolInto(ProtocolAtaSecurity),
                                     AtaSecuritySpecific.EraseUnit, buf, <<enc>>, ok2)>>,
              res |-> IF ok2 THEN "Ok" ELSE "Err"]

security_erase(pw, master, enhanced, ok1, ok2) ==
    LET prepare == security_send(ProtocolInto(ProtocolAtaSecurity),
                                 AtaSecuritySpecific.ErasePrepare, <<>>, <<>>, ok1)
        enc == [master |-> master, level |-> <<enhanced>>, id |-> <<>>]
        buf == AtaSecurityPassword(pw, enc.master, enc.level, enc.id)
    IN  IF ~ok1
        THEN [cmds |-> <<prepare>>, res |-> "Err"]
        ELSE [cmds |-> <<prepare, security_send(ProtocolInto(ProtocolAtaSecurity),
                                     AtaSecuritySpecific.EraseUnit, buf, <<enc>>, ok2)>>,
              res |-> IF ok2 THEN "Ok" ELSE "Err"]

\* a variant that sends the DisablePassword selector in place of FreezeLock
security_freeze_wrong_selector(ok1) ==
    [cmds |-> <<security_send(ProtocolInto(ProtocolAtaSecurity),
                              AtaSecuritySpecific.DisablePassword, <<>>, <<>>, ok1)>>,
     res |-> IF ok1 THEN "Ok" ELSE "Err"]

security_freeze(ok1) ==
    [cmds |-> <<security_send(ProtocolInto(ProtocolAtaSecurity),
                              AtaSecuritySpecific.FreezeLock, <<>>, <<>>, ok1)>>,
     res |-> IF ok1 THEN "Ok" ELSE "Err"]

security_disable_password(pw, master, ok1) ==
    LET enc == [master |-> master, level |-> <<>>, id |-> <<>>]
        buf == AtaSecurityPassword(pw, enc.master, enc.level, enc.id)
    IN  [cmds |-> <<security_send(ProtocolInto(ProtocolAtaSecurity),
                                  AtaSecuritySpecific.DisablePassword, buf, <<enc>>, ok1)>>,
         res |-> IF ok1 THEN "Ok" ELSE "Err"]

--------------------------------------------------------------------------
(* main.rs: reading the password *)

PwSize == 32

PwLens == {0, 1} \cup (PwSize..(PwSize + MaxExtra))

\* what a password file, the standard input or the terminal may hold
PwInputs == {[i \in 1..n |-> c] : n \in PwLens, c \in PwChars}

\* the short inputs: enough to take every branch but the over-long one
PwFew == {p \in PwInputs : Len(p) <= 1}

\* io::copy(&mut f.take(32), &mut &mut buf[..]) into buf = [0u8;32], then the
\* n == 0 test: at most 32 bytes of the input, the rest of buf left zero
copy_take(input, read_ok) ==
    LET n == IF Len(input) < PwSize THEN Len(input) ELSE PwSize
    IN  IF ~read_ok THEN [res |-> "Err", val |-> <<>>]
        ELSE IF n = 0 THEN [res |-> "Err", val |-> <<>>]
        ELSE [res |-> "Ok", val |-> Received(Zeros(PwSize), SubSeq(input, 1, n))]

ReadEv(cmd, input, ok) ==
    Ev(cmd, 0, 0, 0, <<>>, <<>>, IF ok THEN input ELSE <<>>, ok)

\* src = Some(path): open_ok: File::open succeeds; read_ok: the read succeeds
read_password_file(input, open_ok, read_ok) ==
    IF ~open_ok
    THEN [cmds |-> <<ReadEv("open_file", <<>>, FALSE)>>, res |-> "Err", val |-> <<>>]
    ELSE LET c == copy_take(input, read_ok)
         IN  [cmds |-> <<ReadEv("open_file", <<>>, TRUE), ReadEv("read_file", input, read_ok)>>,
              res |-> c.res, val |-> c.val]

\* src = None and isatty(0) /= 1
read_password_stdin(input, read_ok) ==
    LET c == copy_take(input, read_ok)
    IN  [cmds |-> <<ReadEv("read_stdin", input, read_ok)>>, res |-> c.res, val |-> c.val]

\* src = None and isatty(0) = 1: one turn of the prompt loop.  in1, in2: what is
\* typed at the two prompts; ok1, ok2: whether rpassword::read_password succeeds
read_password_tty(confirm, in1, ok1, in2, ok2) ==
    LET e1 == ReadEv("read_tty", in1, ok1)
        e2 == ReadEv("read_tty", in2, ok2)
    IN  IF ~ok1 THEN [cmds |-> <<e1>>, res |-> "Err", val |-> <<>>, out |-> <<>>]
        ELSE IF Len(in1) = 0
        THEN [cmds |-> <<e1>>, res |-> "Continue", val |-> <<>>, out |-> <<>>]
        ELSE IF Len(in1) > PwSize
        THEN [cmds |-> <<e1>>, res |-> "Continue", val |-> <<>>, out |-> <<"too long">>]
        ELSE IF confirm /\ ~ok2
        THEN [cmds |-> <<e1, e2>>, res |-> "Err", val |-> <<>>, out |-> <<>>]
        ELSE IF confirm /\ in1 /= in2
        THEN [cmds |-> <<e1, e2>>, res |-> "Continue", val |-> <<>>, out |-> <<"no match">>]
        ELSE LET c == copy_take(in1, TRUE)
             IN  [cmds |-> IF confirm THEN <<e1, e2>> ELSE <<e1>>,
                  res |-> c.res, val |-> c.val, out |-> <<>>]

--------------------------------------------------------------------------
(* main.rs: main *)

BaseArgs ==
    [cmd |-> "query", flag_password_file |-> FALSE, flag_id |-> 0, flag_user |-> FALSE,
     flag_master |-> FALSE, flag_high |-> FALSE, flag_max |-> FALSE, flag_enhanced |-> FALSE]

\* the command lines USAGE accepts
ArgsSet ==
    {BaseArgs, [BaseArgs EXCEPT !.cmd = "freeze"]}
    \cup {[BaseArgs EXCEPT !.cmd = "set_password", !.flag_user = TRUE, !.flag_max = mx,
                           !.flag_high = ~mx, !.flag_password_file = pf] :
             mx \in BOOLEAN, pf \in BOOLEAN}
    \cup {[BaseArgs EXCEPT !.cmd = "set_password", !.flag_master = TRUE, !.flag_id = id,
                           !.flag_password_file = pf] :
             id \in IdValues, pf \in BOOLEAN}
    \cup {[BaseArgs EXCEPT !.cmd = c, !.flag_user = ~m, !.flag_master = m,
                           !.flag_password_file = pf] :
             c \in {"unlock", "disable_password"}, m \in BOOLEAN, pf \in BOOLEAN}
    \cup {[BaseArgs EXCEPT !.cmd = "erase", !.flag_user = ~m, !.flag_master = m,
                           !.flag_enhanced = en, !.flag_password_file = pf] :
             m \in BOOLEAN, en \in BOOLEAN, pf \in BOOLEAN}

\* the `confirm` argument main passes to read_password
Confirm(cmd) == cmd \in {"set_password", "erase"}

Init ==
    /\ pc = "start"
    /\ args \in ArgsSet
    /\ trace = <<>>
    /\ identity = <<>>
    /\ protocols = <<>>
    /\ security = <<>>
    /\ support = "unset"
    /\ password = <<>>
    /\ attempts = 0
    /\ result = "unset"
    /\ out = <<>>

\* File::open(&args.arg_dev)
Open ==
    /\ pc = "start"
    /\ \E ok \in BOOLEAN :
          /\ pc' = IF ok THEN "opened" ELSE "done"
          /\ out' = IF ok THEN out ELSE out \o <<"unable to open">>
    /\ UNCHANGED <<args, trace, identity, protocols, security, support, password,
                   attempts, result>>

\* if args.cmd_query { query(&f); return; }
\* ids, hdrs, sts: the answers the device may give; few: whether its protocol
\* lists are those of ListFew
QueryOn(ids, hdrs, few, sts) ==
    /\ pc = "opened"
    /\ args.cmd = "query"
    /\ \E ri \in ids, r1 \in hdrs, r3 \in sts :
       \E r2 \in Lists(few, r1.data) :
          LET q == query(ri, r1, r2, r3)
          IN  /\ trace' = trace \o q.cmds
              /\ identity' = q.identity
              /\ protocols' = q.protocols
              /\ security' = q.security
              /\ out' = out \o q.out
    /\ pc' = "done"
    /\ UNCHANGED <<args, support, password, attempts, result>>

Query == QueryOn(IdentifyAnswers, HeaderAnswers, FALSE, StatusAnswers)

\* else { check_support(&f); } and the "Performing ..." line that follows
CheckSupportOn(ids, hdrs, few, sts) ==
    /\ pc = "opened"
    /\ args.cmd /= "query"
    /\ \E ri \in ids, r1 \in hdrs, r3 \in sts :
       \E r2 \in Lists(few, r1.data) :
          LET c == check_support(ri, r1, r2, r3)
          IN  /\ trace' = trace \o c.cmds
              /\ identity' = c.identity
              /\ protocols' = c.protocols
              /\ security' = c.security
              /\ support' = c.res
              /\ out' = out \o c.out \o <<"performing">>
    /\ pc' = "dispatch"
    /\ UNCHANGED <<args, password, attempts, result>>

\* a variant that leaves the support check out
CheckSupportSkipped ==
    /\ pc = "opened"
    /\ args.cmd /= "query"
    /\ pc' = "dispatch"
    /\ out' = out \o <<"performing">>
    /\ UNCHANGED <<args, trace, identity, protocols, security, support, password,
                   attempts, result>>

CheckSupport == CheckSupportOn(IdentifyAnswers, HeaderAnswers, FALSE, StatusAnswers)

PwCmds == {"set_password", "unlock", "disable_password", "erase"}

\* a variant that reads the password again after an error
ReadPasswordDone_retry(r) ==
    /\ trace' = trace \o r.cmds
    /\ password' = r.val
    /\ pc' = IF r.res = "Ok" THEN "execute" ELSE pc
    /\ out' = IF r.res = "Ok" THEN out ELSE out \o <<"error reading password">>

\* a variant that goes on with an all-zero password after an error
ReadPasswordDone_default(r) ==
    /\ trace' = trace \o r.cmds
    /\ password' = IF r.res = "Ok" THEN r.val ELSE Zeros(32)
    /\ pc' = "execute"
    /\ out' = IF r.res = "Ok" THEN out ELSE out \o <<"error reading password">>

\* read_password: the password on Ok; on Err the message and process::exit(1)
ReadPasswordDone(r) ==
    /\ trace' = trace \o r.cmds
    /\ password' = r.val
    /\ pc' = IF r.res = "Ok" THEN "execute" ELSE "done"
    /\ out' = IF r.res = "Ok" THEN out ELSE out \o <<"error reading password">>

\* read_password(args.flag_password_file, ..) with --password-file given
ReadPasswordFile(inputs) ==
    /\ pc = "dispatch"
    /\ args.cmd \in PwCmds
    /\ args.flag_password_file
    /\ \E input \in inputs, open_ok \in BOOLEAN, read_ok \in BOOLEAN :
          ReadPasswordDone(read_password_file(input, open_ok, read_ok))
    /\ UNCHANGED <<args, identity, protocols, security, support, attempts, result>>

\* read_password(None, ..) when standard input is no terminal
ReadPasswordStdin(inputs) ==
    /\ pc = "dispatch"
    /\ args.cmd \in PwCmds
    /\ ~args.flag_password_file
    /\ attempts = 0
    /\ \E input \in inputs, read_ok \in BOOLEAN :
          ReadPasswordDone(read_password_stdin(input, read_ok))
    /\ UNCHANGED <<args, identity, protocols, security, support, attempts, result>>

\* read_password(None, ..) when standard input is a terminal: one turn of the loop
ReadPasswordTty(inputs) ==
    /\ pc = "dispatch"
    /\ args.cmd \in PwCmds
    /\ ~args.flag_password_file
    /\ \E in1 \in inputs, in2 \in inputs, ok1 \in BOOLEAN, ok2 \in BOOLEAN :
          LET r == read_password_tty(Confirm(args.cmd), in1, ok1, in2, ok2)
          IN  IF r.res = "Continue"
              THEN /\ attempts < MaxAttempts
                   /\ trace' = trace \o r.cmds
                   /\ out' = out \o r.out
                   /\ attempts' = attempts + 1
                   /\ UNCHANGED <<pc, password>>
              ELSE /\ ReadPasswordDone(r)
                   /\ UNCHANGED attempts
    /\ UNCHANGED <<args, identity, protocols, security, support, result>>

\* what main prints for `result`: "Success!", or the one error line with the
\* Debug form of the error `e` the failed device command returned
Report(res, e) == IF res = "Ok" THEN <<"success">> ELSE <<"error executing", e>>

\* `result` of main and the line main prints for it
Finish(r) ==
    /\ trace' = trace \o r.cmds
    /\ result' = r.res
    /\ \E e \in DeviceIoErrors : out' = out \o Report(r.res, e)
    /\ pc' = "done"
    /\ UNCHANGED <<args, identity, protocols, security, support, password, attempts>>

SetPasswordUser ==
    /\ pc = "execute"
    /\ args.cmd = "set_password"
    /\ args.flag_user
    /\ \E ok1 \in BOOLEAN :
          Finish(security_set_password_user(password, args.flag_max, ok1))

SetPasswordMaster ==
    /\ pc = "execute"
    /\ args.cmd = "set_password"
    /\ ~args.flag_user
    /\ \E ok1 \in BOOLEAN :
          Finish(security_set_password_master(password, args.flag_id, ok1))

Unlock ==
    /\ pc = "execute"
    /\ args.cmd = "unlock"
    /\ \E ok1 \in BOOLEAN, ok2 \in BOOLEAN :
          Finish(security_unlock(password, args.flag_master, ok1, ok2))

DisablePassword ==
    /\ pc = "execute"
    /\ args.cmd = "disable_password"
    /\ \E ok1 \in BOOLEAN :
          Finish(security_disable_password(password, args.flag_master, ok1))

Erase ==
    /\ pc = "execute"
    /\ args.cmd = "erase"
    /\ \E ok1 \in BOOLEAN, ok2 \in BOOLEAN :
          Finish(security_erase(password, args.flag_master, args.flag_enhanced, ok1, ok2))

Freeze ==
    /\ pc = "dispatch"
    /\ args.cmd = "freeze"
    /\ \E ok1 \in BOOLEAN :
          Finish(security_freeze(ok1))

Next ==
    \/ Open
    \/ Query
    \/ CheckSupport
    \/ ReadPasswordFile(PwFew)
    \/ ReadPasswordStdin(PwFew)
    \/ ReadPasswordTty(PwFew)
    \/ SetPasswordUser
    \/ SetPasswordMaster
    \/ Unlock
    \/ DisablePassword
    \/ Erase
    \/ Freeze

Spec == Init /\ [][Next]_vars

\* the same program with every password input, against the device of
\* IdentifyFew .. StatusFew
NextPw ==
    \/ Open
    \/ QueryOn(IdentifyFew, HeaderFew, TRUE, StatusFew)
    \/ CheckSupportOn(IdentifyFew, HeaderFew, TRUE, StatusFew)
    \/ ReadPasswordFile(PwInputs)
    \/ ReadPasswordStdin(PwInputs)
    \/ ReadPasswordTty(PwInputs)
    \/ SetPasswordUser
    \/ SetPasswordMaster
    \/ Unlock
    \/ DisablePassword
    \/ Erase
    \/ Freeze

SpecPw == Init /\ [][NextPw]_vars

--------------------------------------------------------------------------
(* Properties *)

IsSend(e, sub) == e.cmd = "send" /\ e.sp = AtaSecuritySpecific[sub]

IsDevice(e) == e.cmd \in DeviceCmds

Count(P(_)) == Cardinality({i \in DOMAIN trace : P(trace[i])})

\* what check_support is there to establish
SupportConfirmed ==
    /\ identity /= <<>>
    /\ Contains(identity[1], OACS_SECURITY)
    /\ protocols /= <<>>
    /\ \E k \in DOMAIN protocols[1] : protocols[1][k] = ProtocolAtaSecurity
    /\ security /= <<>>
    /\ s_suprt(security[1])

\* C1: a Security Send is issued only after the capability bit, the presence
\* of ATA-Security in the protocol list and the supported flag were all
\* confirmed in the same run
C1_SendOnlyIfSupportConfirmed ==
    (\E i \in DOMAIN trace : trace[i].cmd = "send") => SupportConfirmed

\* C2: once an ErasePrepare send has failed, no EraseUnit send is issued
C2_NoEraseUnitAfterFailedPrepare ==
    (\E i \in DOMAIN trace : IsSend(trace[i], "ErasePrepare") /\ ~trace[i].ok)
        => ~(\E j \in DOMAIN trace : IsSend(trace[j], "EraseUnit"))

C2_Witness ==
    /\ pc = "done"
    /\ args.cmd = "erase"
    /\ \E i \in DOMAIN trace : IsSend(trace[i], "ErasePrepare") /\ ~trace[i].ok

\* C3: an EraseUnit send comes directly after a successful ErasePrepare send,
\* and the call directly after a successful ErasePrepare send is the EraseUnit
\* send: no device command and no password read lies between the two
C3_PrepareThenUnitAdjacent ==
    \A i \in DOMAIN trace :
        /\ IsSend(trace[i], "EraseUnit") =>
              i > 1 /\ IsSend(trace[i - 1], "ErasePrepare") /\ trace[i - 1].ok
        /\ (IsSend(trace[i], "ErasePrepare") /\ trace[i].ok) =>
              i < Len(trace) /\ IsSend(trace[i + 1], "EraseUnit")

C3_Witness ==
    /\ args.cmd = "erase"
    /\ \E i \in DOMAIN trace : IsSend(trace[i], "EraseUnit")
    /\ \E i \in DOMAIN trace : trace[i].cmd \in {"read_file", "read_stdin", "read_tty"}

\* C4: after a successful Unlock send the next call is a controller reset, and
\* it is the only controller reset of the run
C4_UnlockThenOneReset ==
    \A i \in DOMAIN trace :
        (IsSend(trace[i], "Unlock") /\ trace[i].ok) =>
            /\ i < Len(trace)
            /\ trace[i + 1].cmd = "reset"
            /\ Count(LAMBDA e : e.cmd = "reset") = 1

C4_Witness ==
    /\ args.cmd = "unlock"
    /\ args.flag_master
    /\ \E i \in DOMAIN trace : IsSend(trace[i], "Unlock") /\ trace[i].ok
    /\ \E i \in DOMAIN trace : trace[i].cmd = "reset" /\ ~trace[i].ok

\* C5: query issues identify and receive commands only
C5_QueryReadOnly ==
    args.cmd = "query" =>
        \A i \in DOMAIN trace : trace[i].cmd \in {"identify", "receive"}

C5_Witness ==
    /\ args.cmd = "query"
    /\ pc = "done"
    /\ security /= <<>>
    /\ Len(trace) = 4

\* C6: once a device command has returned an error, no further device command
\* is issued in the run
C6_NoCommandAfterError ==
    \A i \in DOMAIN trace : \A j \in DOMAIN trace :
        (i < j /\ IsDevice(trace[i]) /\ ~trace[i].ok) => ~IsDevice(trace[j])

Printed(msg) == \E k \in DOMAIN out : out[k] = msg

\* security_protocols was called, with an identity whose SECURITY bit is `bit`
Enumerated(bit) ==
    /\ identity /= <<>>
    /\ ~Printed("panic")
    /\ Contains(identity[1], OACS_SECURITY) = bit

\* C7: when the identity lacks the SECURITY capability bit, the protocol
\* enumeration reports "unsupported" and no Security Receive is issued
C7_NoReceiveWithoutCapability ==
    Enumerated(FALSE) =>
        /\ protocols = <<>>
        /\ Printed("no nvme security")
        /\ Count(LAMBDA e : e.cmd = "receive") = 0

C7_Witness ==
    /\ Enumerated(FALSE)
    /\ identity = <<2>>
    /\ pc = "done"

\* C8: with the capability bit present the first receive has protocol and
\* selector 0 and an 8-byte buffer; with N the big-endian number in bytes 6..7
\* of its answer, a second protocol-list receive follows exactly when N > 0,
\* into a buffer of N + 8 bytes, and N = 0 gives the empty list after that one
\* receive
C8_TwoPhaseDiscovery ==
    Enumerated(TRUE) =>
        LET listRx == {i \in DOMAIN trace :
                          trace[i].cmd = "receive" /\ trace[i].protocol = 0}
            N == trace[2].data[7] * 256 + trace[2].data[8]
        IN  /\ Len(trace) >= 2
            /\ trace[2].cmd = "receive"
            /\ trace[2].protocol = 0
            /\ trace[2].sp = 0
            /\ trace[2].len = 8
            /\ ~trace[2].ok => listRx = {2}
            /\ trace[2].ok =>
                  IF N > 0
                  THEN listRx = {2, 3} /\ trace[3].sp = 0 /\ trace[3].len = N + 8
                  ELSE /\ listRx = {2}
                       /\ protocols = << <<>> >>
                       /\ Count(LAMBDA e : e.cmd = "receive") = 1

C8_Witness ==
    /\ Enumerated(TRUE)
    /\ Len(trace) >= 3
    /\ trace[2].ok
    /\ trace[2].data[7] = 1
    /\ trace[2].data[8] = 2
    /\ trace[3].len = 266
    /\ trace[3].ok

\* C9: with ATA-Security absent from the enumerated list the status decoding
\* reports "unsupported" and issues no receive; with it present exactly one
\* receive with protocol ATA-Security is issued, with selector 0 and a
\* 16-byte buffer
C9_StatusReceive ==
    protocols /= <<>> =>
        LET statusRx == {i \in DOMAIN trace :
                            /\ trace[i].cmd = "receive"
                            /\ trace[i].protocol = ProtocolAtaSecurity.raw}
        IN  IF \E k \in DOMAIN protocols[1] : protocols[1][k] = ProtocolAtaSecurity
            THEN /\ Cardinality(statusRx) = 1
                 /\ \A i \in statusRx : trace[i].sp = 0 /\ trace[i].len = 16
            ELSE /\ statusRx = {}
                 /\ security = <<>>
                 /\ Printed("no ata security commands")

C9_Witness ==
    /\ protocols /= <<>>
    /\ Len(protocols[1]) = 2
    /\ protocols[1][1] /= ProtocolAtaSecurity
    /\ protocols[1][2] = ProtocolAtaSecurity
    /\ security /= <<>>

\* C10: each mutating sub-command is sent at most once in a run and the
\* controller reset is issued at most once, whether the send succeeded or not
C10_NoRetry ==
    /\ \A sub \in DOMAIN AtaSecuritySpecific :
          Count(LAMBDA e : IsSend(e, sub)) <= 1
    /\ Count(LAMBDA e : e.cmd = "reset") <= 1

C10_Witness ==
    /\ pc = "done"
    /\ result = "Err"
    /\ \E i \in DOMAIN trace : IsSend(trace[i], "Unlock") /\ ~trace[i].ok

\* the two-step command of the run, with the device accepting (ok1) or refusing
\* its first call and accepting (ok2) or refusing its second
TwoStep(ok1, ok2) ==
    IF args.cmd = "erase"
    THEN security_erase(password, args.flag_master, args.flag_enhanced, ok1, ok2)
    ELSE security_unlock(password, args.flag_master, ok1, ok2)

\* C11: what erase and unlock report when their first step fails differs from
\* what they report when their second step fails, so that the report tells
\* which step failed
C11_ReportNamesFailedStep ==
    (pc = "execute" /\ args.cmd \in {"erase", "unlock"}) =>
        \A e1 \in DeviceIoErrors, e2 \in DeviceIoErrors, ok2 \in BOOLEAN :
            Report(TwoStep(FALSE, ok2).res, e1) /= Report(TwoStep(TRUE, FALSE).res, e2)

ReadCmds == {"read_file", "read_stdin", "read_tty"}

\* the last successful password read of the run (0 if there is none)
LastRead ==
    LET reads == {i \in DOMAIN trace : trace[i].cmd \in ReadCmds /\ trace[i].ok}
    IN  IF reads = {} THEN 0 ELSE CHOOSE i \in reads : \A j \in reads : j <= i

\* C12: the 32 bytes handed to the commands are the input read, zero-padded on
\* the right, and an input of more than 32 bytes is never accepted
C12_PadOrReject ==
    password /= <<>> =>
        /\ LastRead /= 0
        /\ Len(trace[LastRead].data) <= PwSize
        /\ password = [k \in 1..PwSize |->
                          IF k <= Len(trace[LastRead].data)
                          THEN trace[LastRead].data[k] ELSE 0]

\* C13: with a first-phase length N > 0 the enumeration yields N entries, entry
\* i made of the byte i places after the 8-byte header of the second answer
\* (zero where the device wrote nothing), in that order, 0xEF being ATA-Security
C13_ListAsReported ==
    (Enumerated(TRUE) /\ protocols /= <<>> /\ trace[2].data[7] * 256 + trace[2].data[8] > 0) =>
        LET N == trace[2].data[7] * 256 + trace[2].data[8]
            byte(i) == IF i + 8 <= Len(trace[3].data) THEN trace[3].data[i + 8] ELSE 0
        IN  /\ trace[3].ok
            /\ Len(protocols[1]) = N
            /\ \A i \in 1..N :
                  protocols[1][i] = IF byte(i) = 239
                                    THEN [tag |-> "AtaSecurity", raw |-> 239]
                                    ELSE [tag |-> "Other", raw |-> byte(i)]

C13_Witness ==
    /\ Enumerated(TRUE)
    /\ protocols /= <<>>
    /\ Len(protocols[1]) = 2
    /\ protocols[1][1] = ProtocolAtaSecurity
    /\ protocols[1][2] = ProtocolAtaSecurity
    /\ trace[3].data[9] = 239

Encoded(e) == e.enc /= <<>>

\* C14 as stated: no payload is encoded with the Master role and a level
C14_NoLevelWithMaster ==
    \A i \in DOMAIN trace :
        (Encoded(trace[i]) /\ trace[i].enc[1].master) => trace[i].enc[1].level = <<>>

\* C14: a payload is encoded with the Master role and a level by the EraseUnit
\* send of erase only, where the level carries the enhanced flag; set-password,
\* unlock and disable-password pass no level with the Master role
C14_LevelWithMasterOnlyInErase ==
    \A i \in DOMAIN trace :
        (Encoded(trace[i]) /\ trace[i].enc[1].master /\ trace[i].enc[1].level /= <<>>) =>
            /\ args.cmd = "erase"
            /\ IsSend(trace[i], "EraseUnit")
            /\ trace[i].enc[1].level = <<args.flag_enhanced>>

C14_Witness ==
    /\ args.cmd = "erase"
    /\ args.flag_master
    /\ \E i \in DOMAIN trace :
          IsSend(trace[i], "EraseUnit") /\ trace[i].enc[1].level = <<TRUE>>
    /\ pc = "done"

DevCount == Count(IsDevice)

\* the device was opened and the run has gone past the support check
Started == pc \notin {"start", "opened"} /\ ~Printed("unable to open")

\* C15 as stated: a finished operation has issued one to three device commands
C15_OneToThreeCommands ==
    (pc = "done" /\ Started) => (1 <= DevCount /\ DevCount <= 3)

\* the most device commands an operation issues
MostCommands(cmd) ==
    IF cmd = "query" THEN 4
    ELSE IF cmd \in {"unlock", "erase"} THEN 6
    ELSE 5

\* C15: once the device is opened an operation issues at least one device
\* command, and at most four (query), five (set-password, disable-password,
\* freeze) or six (unlock, erase)
C15_OneToSixCommands ==
    /\ DevCount <= MostCommands(args.cmd)
    /\ Started => DevCount >= 1

C15_Witness ==
    /\ pc = "done"
    /\ args.cmd = "erase"
    /\ DevCount = 6
    /\ result = "Err"

AcqCmds == ReadCmds \cup {"open_file"}

SourceOf(cmd) ==
    IF cmd \in {"open_file", "read_file"} THEN "file"
    ELSE IF cmd = "read_stdin" THEN "stdin" ELSE "tty"

\* C16 as stated: no device command precedes the password acquisition
C16_SourceBeforeAnyCommand ==
    \A i \in DOMAIN trace :
        trace[i].cmd \in AcqCmds => \A j \in 1..(i - 1) : ~IsDevice(trace[j])

\* C16: the password is acquired from one source only, after the identify of
\* the read-only support check and before any Security Send or controller reset
C16_SourceOnceBeforeMutation ==
    \A i \in DOMAIN trace :
        trace[i].cmd \in AcqCmds =>
            /\ \A j \in DOMAIN trace :
                  trace[j].cmd \in AcqCmds => SourceOf(trace[j].cmd) = SourceOf(trace[i].cmd)
            /\ \A j \in 1..(i - 1) : trace[j].cmd \notin {"send", "reset"}
            /\ \E j \in 1..(i - 1) : trace[j].cmd = "identify"

C16_Witness ==
    /\ pc = "done"
    /\ result = "Ok"
    /\ attempts >= 1
    /\ \E i \in DOMAIN trace : trace[i].cmd = "read_tty" /\ Len(trace[i].data) = PwSize

\* a read of a password file or of a non-terminal standard input that failed or
\* brought nothing
BadRead(e) ==
    /\ e.cmd \in {"open_file", "read_file", "read_stdin"}
    /\ ~e.ok \/ (e.cmd /= "open_file" /\ Len(e.data) = 0)

\* C17: a password file and a non-terminal standard input are read at most
\* once, an error of theirs ends the run at once, and wherever the prompt was
\* repeated the source is the terminal
C17_RetryOnlyOnTerminal ==
    /\ Count(LAMBDA e : e.cmd = "open_file") <= 1
    /\ Count(LAMBDA e : e.cmd = "read_file") <= 1
    /\ Count(LAMBDA e : e.cmd = "read_stdin") <= 1
    /\ attempts >= 1 =>
          \A i \in DOMAIN trace : trace[i].cmd \in AcqCmds => trace[i].cmd = "read_tty"
    /\ \A i \in DOMAIN trace :
          BadRead(trace[i]) =>
              /\ i = Len(trace)
              /\ pc = "done"
              /\ password = <<>>
              /\ Printed("error reading password")

C17_Witness ==
    /\ pc = "done"
    /\ args.cmd = "set_password"
    /\ \E i \in DOMAIN trace :
          trace[i].cmd = "read_stdin" /\ trace[i].ok /\ Len(trace[i].data) = 0

\* C18: the first call of every operation is the identify command, issued
\* once: no receive, send or password read precedes it
C18_IdentifyFirst ==
    /\ Started => Len(trace) >= 1
    /\ Len(trace) >= 1 => trace[1].cmd = "identify"
    /\ Count(LAMBDA e : e.cmd = "identify") <= 1

C18_Witness ==
    /\ pc = "done"
    /\ args.cmd = "freeze"
    /\ Len(trace) = 5
    /\ trace[1].ok

\* C19: when reading the password failed, the run ends without a Security
\* Send and without a controller reset
C19_NoSendAfterPasswordError ==
    Printed("error reading password") =>
        /\ pc = "done"
        /\ result = "unset"
        /\ \A i \in DOMAIN trace : trace[i].cmd \notin {"send", "reset"}

C19_Witness ==
    /\ Printed("error reading password")
    /\ args.cmd = "erase"
    /\ support = "Some"
    /\ \E i \in DOMAIN trace : trace[i].cmd = "read_tty" /\ ~trace[i].ok

\* the sub-commands that belong to an operation
SubCommands(cmd) ==
    IF cmd = "set_password" THEN {AtaSecuritySpecific.SetPassword}
    ELSE IF cmd = "unlock" THEN {AtaSecuritySpecific.Unlock}
    ELSE IF cmd = "disable_password" THEN {AtaSecuritySpecific.DisablePassword}
    ELSE IF cmd = "erase"
    THEN {AtaSecuritySpecific.ErasePrepare, AtaSecuritySpecific.EraseUnit}
    ELSE IF cmd = "freeze" THEN {AtaSecuritySpecific.FreezeLock}
    ELSE {}

\* C20: every send has protocol ATA-Security and a sub-command of the
\* operation asked for; only unlock resets the controller; freeze issues one
\* send, without payload, and reads no password
C20_SendsBelongToOperation ==
    /\ \A i \in DOMAIN trace :
          /\ trace[i].cmd = "send" =>
                trace[i].protocol = 239 /\ trace[i].sp \in SubCommands(args.cmd)
          /\ trace[i].cmd = "reset" => args.cmd = "unlock"
    /\ args.cmd = "freeze" =>
          /\ \A i \in DOMAIN trace :
                /\ trace[i].cmd \notin AcqCmds
                /\ trace[i].cmd = "send" => trace[i].payload = <<>> /\ trace[i].len = 0
          /\ Count(LAMBDA e : e.cmd = "send") <= 1
          /\ (pc = "done" /\ Started) => Count(LAMBDA e : e.cmd = "send") = 1

C20_Witness ==
    /\ pc = "done"
    /\ args.cmd = "freeze"
    /\ result = "Ok"
    /\ \E i \in DOMAIN trace : IsSend(trace[i], "FreezeLock")

====
